---- MODULE Spec2Model ----
(***************************************************************************)
(* Model of package eactx (context.go): a Context wraps a cancellation     *)
(* token (context.Context) with a lifecycle state, three callback          *)
(* registries, a monitor goroutine per generation and a condition          *)
(* variable on which CancelWithWait blocks.                                *)
(*                                                                         *)
(* Caller goroutines and monitor goroutines interleave at the granularity  *)
(* of mutex sections and of single unsynchronised reads and writes.        *)
(***************************************************************************)
EXTENDS FiniteSets, Integers, Sequences, TLC

\* ---------------------------------------------------------------- bounds
MaxGen == 1        \* number of Reset calls (generations 0..MaxGen)
MaxCb == 2         \* number of non-nil callbacks registered overall
MaxCbReset == 1    \* the same, in the specification with Reset
MaxCbAlias == 9    \* the same, in the specification of OnCancel registrations
MaxCbClone == 2    \* the same, in the specification with Clone

Threads == {"t1", "t2"}
Gens == 0 .. MaxGen
NoOwner == "free"

\* ------------------------------------------------ context.go:14-20 State
Created == "Created"
Running == "Running"
Canceled == "Canceled"
Deadlined == "Deadlined"
Finished == "Finished"
States == {Created, Running, Canceled, Deadlined, Finished}

\* sentinels of context.Context.Err()
ErrNone == "nil"
ErrCanceled == "context.Canceled"
ErrDeadline == "context.DeadlineExceeded"
ErrOther == "other"
ParentErrs == {ErrCanceled, ErrDeadline, ErrOther}

\* a Go slice: backing array (index into heap, 0 = nil), length, capacity
NilSlice == [arr |-> 0, len |-> 0, cap |-> 0]

VARIABLES
    state,      \* cw.state
    done,       \* cw.done
    mu,         \* holder of cw.mu
    onDone,     \* cw.onDone    (slice header)
    onCancel,   \* cw.onCancel  (slice header)
    onTimeout,  \* cw.onTimeout (slice header)
    heap,       \* backing arrays of the []func() slices
    curGen,     \* which token cw.ctx / cw.cancel currently refer to
    timed,      \* generation 0 was built by NewContextWithTimeout
    tok,        \* per token: Err() and who terminated it
    mon,        \* per generation: the startMonitoring goroutine
    waiters,    \* notify list of cw.cond
    pc,         \* per caller goroutine: position
    loc,        \* per caller goroutine: locals of the running operation
    waited,     \* history: callers whose CancelWithWait has returned
    cbs,        \* history: one record per registered callback
    calls,      \* history: per callback, per monitor generation, invocations
    clone       \* the Context returned by Clone()

vars == <<state, done, mu, onDone, onCancel, onTimeout, heap, curGen, timed,
          tok, mon, waiters, pc, loc, waited, cbs, calls, clone>>

ctxVars == <<state, done, mu, onDone, onCancel, onTimeout, heap, curGen, timed,
             tok, mon, waiters>>

\* ------------------------------------------------------------- helpers
Terminal(s) == s \in {Canceled, Deadlined, Finished}

NoLoc == [op |-> "-", gen |-> 0, hdr |-> NilSlice, cb |-> 0, val |-> "-"]
\* from: the state the instance was in when the generation was started (history)
IdleMon == [pc |-> "none", ctx |-> 0, newState |-> Created, snap |-> NilSlice, i |-> 0,
            from |-> "-"]

\* no Context has been made by Clone() yet
NoClone == [made |-> FALSE, ctx |-> 0, state |-> Created, done |-> FALSE,
            mu |-> NoOwner, onDone |-> NilSlice, onCancel |-> NilSlice,
            onTimeout |-> NilSlice]

Kinds == {"OnDone", "OnCancel", "OnTimeout"}

Registry(k) == CASE k = "OnDone" -> onDone
                 [] k = "OnCancel" -> onCancel
                 [] k = "OnTimeout" -> onTimeout

\* capacity chosen by append when the backing array is full
GrowCap(c) == IF c = 0 THEN 1 ELSE 2 * c

\* append(h, f): header returned, and the heap after the element write
AppendHdr(h, f) ==
    IF h.len < h.cap
    THEN [arr |-> h.arr, len |-> h.len + 1, cap |-> h.cap]
    ELSE [arr |-> Len(heap) + 1, len |-> h.len + 1, cap |-> GrowCap(h.cap)]

AppendHeap(h, f) ==
    IF h.len < h.cap
    THEN [heap EXCEPT ![h.arr][h.len + 1] = f]
    ELSE Append(heap, [j \in 1 .. GrowCap(h.cap) |->
                          IF j <= h.len THEN heap[h.arr][j]
                          ELSE IF j = h.len + 1 THEN f ELSE 0])

\* ---------------------------------------------------------------- Init
\* NewContextWithCancel / NewContextWithTimeout: state Created, registries
\* nil, done false, monitor of generation 0 launched.
Init ==
    /\ state = Created
    /\ done = FALSE
    /\ mu = NoOwner
    /\ onDone = NilSlice
    /\ onCancel = NilSlice
    /\ onTimeout = NilSlice
    /\ heap = <<>>
    /\ curGen = 0
    /\ timed \in BOOLEAN
    /\ tok = [g \in Gens |-> ErrNone]
    /\ mon = [g \in Gens |-> IF g = 0 THEN [IdleMon EXCEPT !.pc = "start"] ELSE IdleMon]
    /\ waiters = {}
    /\ pc = [t \in Threads |-> "idle"]
    /\ loc = [t \in Threads |-> NoLoc]
    /\ waited = {}
    /\ cbs = <<>>
    /\ calls = <<>>
    /\ clone = NoClone

\* -------------------------------------------------- the token (collaborator)
\* the deadline of the token made by context.WithTimeout expires
DeadlineFire ==
    /\ timed
    /\ tok[0] = ErrNone
    /\ tok' = [tok EXCEPT ![0] = ErrDeadline]
    /\ UNCHANGED <<state, done, mu, onDone, onCancel, onTimeout, heap, curGen,
                   timed, mon, waiters, pc, loc, waited, cbs, calls, clone>>

\* the parent of a derived token terminates; the child reports the parent's Err()
ParentDone(g, e) ==
    /\ g <= curGen
    /\ tok[g] = ErrNone
    /\ tok' = [tok EXCEPT ![g] = e]
    /\ UNCHANGED <<state, done, mu, onDone, onCancel, onTimeout, heap, curGen,
                   timed, mon, waiters, pc, loc, waited, cbs, calls, clone>>

\* cw.cancel(): the trigger of the current token
CancelTok ==
    IF tok[curGen] = ErrNone
    THEN [tok EXCEPT ![curGen] = ErrCanceled]
    ELSE tok

\* ------------------------------------------------------ startMonitoring
\* line 40: setState(Running), then the select evaluates cw.ctx.Done()
MonStart(g) ==
    /\ mon[g].pc = "start"
    /\ mu = NoOwner
    /\ state' = Running
    /\ mon' = [mon EXCEPT ![g].pc = "wait", ![g].ctx = curGen]
    /\ UNCHANGED <<done, mu, onDone, onCancel, onTimeout, heap, curGen, timed,
                   tok, waiters, pc, loc, waited, cbs, calls, clone>>

\* lines 43-56: the done channel fired; classify cw.ctx.Err() under the lock
\* a classification that does not tell the deadline sentinel from cancellation
NewStateOfNoDeadline(e) == CASE e = ErrCanceled -> Canceled
                             [] e = ErrDeadline -> Canceled
                             [] OTHER -> Created

NewStateOf(e) == CASE e = ErrCanceled -> Canceled
                   [] e = ErrDeadline -> Deadlined
                   [] OTHER -> Created      \* zero value of State

SnapOf(e) == CASE e = ErrCanceled -> onCancel
               [] e = ErrDeadline -> onTimeout
               [] OTHER -> NilSlice

MonClassify(g) ==
    /\ mon[g].pc = "wait"
    /\ tok[mon[g].ctx] # ErrNone
    /\ mu = NoOwner
    /\ mon' = [mon EXCEPT ![g].pc = "set",
                          ![g].newState = NewStateOf(tok[curGen]),
                          ![g].snap = SnapOf(tok[curGen])]
    /\ UNCHANGED <<state, done, mu, onDone, onCancel, onTimeout, heap, curGen,
                   timed, tok, waiters, pc, loc, waited, cbs, calls, clone>>

\* lines 58-59 / 63-65: setState of the chosen branch, and the slice ranged over
MonSet(g) ==
    /\ mon[g].pc = "set"
    /\ mu = NoOwner
    /\ IF mon[g].newState # Running
       THEN /\ state' = mon[g].newState
            /\ mon' = [mon EXCEPT ![g].pc = "loop", ![g].i = 0]
       ELSE /\ state' = Finished
            /\ mon' = [mon EXCEPT ![g].pc = "loop", ![g].i = 0, ![g].snap = onDone]
    /\ UNCHANGED <<done, mu, onDone, onCancel, onTimeout, heap, curGen, timed,
                   tok, waiters, pc, loc, waited, cbs, calls, clone>>

\* lines 60-62 / 65-67: f() is entered
MonCall(g) ==
    /\ mon[g].pc = "loop"
    /\ mon[g].i < mon[g].snap.len
    /\ LET f == heap[mon[g].snap.arr][mon[g].i + 1]
       IN calls' = [calls EXCEPT ![f][g] = @ + 1]
    /\ mon' = [mon EXCEPT ![g].pc = "call"]
    /\ UNCHANGED <<state, done, mu, onDone, onCancel, onTimeout, heap, curGen,
                   timed, tok, waiters, pc, loc, waited, cbs, clone>>

\* f() returns
MonRet(g) ==
    /\ mon[g].pc = "call"
    /\ mon' = [mon EXCEPT ![g].pc = "loop", ![g].i = @ + 1]
    /\ UNCHANGED <<state, done, mu, onDone, onCancel, onTimeout, heap, curGen,
                   timed, tok, waiters, pc, loc, waited, cbs, calls, clone>>

\* line 71: cw.done = true   (no lock)
MonDone(g) ==
    /\ mon[g].pc = "loop"
    /\ mon[g].i = mon[g].snap.len
    /\ done' = TRUE
    /\ mon' = [mon EXCEPT ![g].pc = "bcast"]
    /\ UNCHANGED <<state, mu, onDone, onCancel, onTimeout, heap, curGen, timed,
                   tok, waiters, pc, loc, waited, cbs, calls, clone>>

\* line 72: cw.cond.Broadcast()
MonBroadcast(g) ==
    /\ mon[g].pc = "bcast"
    /\ waiters' = {}
    /\ mon' = [mon EXCEPT ![g].pc = "exit"]
    /\ UNCHANGED <<state, done, mu, onDone, onCancel, onTimeout, heap, curGen,
                   timed, tok, pc, loc, waited, cbs, calls, clone>>

Monitor(g) ==
    \/ MonStart(g)
    \/ MonClassify(g)
    \/ MonSet(g)
    \/ MonCall(g)
    \/ MonRet(g)
    \/ MonDone(g)
    \/ MonBroadcast(g)



\* ------------------------------------------------------ caller goroutines
\* a value-returning call has returned; the caller goes on
RetDone(t) ==
    /\ pc[t] = "ret"
    /\ pc' = [pc EXCEPT ![t] = "idle"]
    /\ loc' = [loc EXCEPT ![t] = NoLoc]
    /\ UNCHANGED <<ctxVars, waited, cbs, calls, clone>>

\* State(): lock, read cw.state, unlock
StateOp(t) ==
    /\ pc[t] = "idle"
    /\ mu = NoOwner
    /\ pc' = [pc EXCEPT ![t] = "ret"]
    /\ loc' = [loc EXCEPT ![t] = [NoLoc EXCEPT !.op = "State", !.gen = curGen,
                                                !.val = state]]
    /\ UNCHANGED <<ctxVars, waited, cbs, calls, clone>>

\* IsDone(): cw.state != Created && cw.state != Running, two reads, no lock
IsDoneRead1(t) ==
    /\ pc[t] = "idle"
    /\ IF state # Created
       THEN /\ pc' = [pc EXCEPT ![t] = "isdone2"]
            /\ loc' = [loc EXCEPT ![t] = [NoLoc EXCEPT !.op = "IsDone", !.gen = curGen]]
       ELSE /\ pc' = [pc EXCEPT ![t] = "ret"]
            /\ loc' = [loc EXCEPT ![t] = [NoLoc EXCEPT !.op = "IsDone", !.gen = curGen,
                                                        !.val = "false"]]
    /\ UNCHANGED <<ctxVars, waited, cbs, calls, clone>>

IsDoneRead2(t) ==
    /\ pc[t] = "isdone2"
    /\ pc' = [pc EXCEPT ![t] = "ret"]
    /\ loc' = [loc EXCEPT ![t].val = IF state # Running THEN "true" ELSE "false"]
    /\ UNCHANGED <<ctxVars, waited, cbs, calls, clone>>

\* Cancel(): cw.cancel()
CancelOp(t) ==
    /\ pc[t] = "idle"
    /\ tok' = CancelTok
    /\ UNCHANGED <<state, done, mu, onDone, onCancel, onTimeout, heap, curGen,
                   timed, mon, waiters, pc, loc, waited, cbs, calls, clone>>

\* CancelWithWait() line 113: cw.Cancel()
CWWCancel(t) ==
    /\ pc[t] = "idle"
    /\ tok' = CancelTok
    /\ pc' = [pc EXCEPT ![t] = "cww_lock"]
    /\ loc' = [loc EXCEPT ![t] = [NoLoc EXCEPT !.op = "CancelWithWait", !.gen = curGen]]
    /\ UNCHANGED <<state, done, mu, onDone, onCancel, onTimeout, heap, curGen,
                   timed, mon, waiters, waited, cbs, calls, clone>>

\* CancelWithWait that returns without waiting for cw.done
CWWCheckNoWait(t) ==
    /\ pc[t] = "cww_lock"
    /\ mu = NoOwner
    /\ pc' = [pc EXCEPT ![t] = "ret"]
    /\ loc' = [loc EXCEPT ![t].val = state]
    /\ waited' = waited \cup {t}
    /\ UNCHANGED <<state, done, mu, onDone, onCancel, onTimeout, heap, curGen, timed,
                   tok, mon, waiters, cbs, calls, clone>>

\* lines 114-115, 118: with the lock held test cw.done; return when it is set
\* (loc.val keeps the value cw.state has at the moment of the return)
CWWCheck(t) ==
    /\ pc[t] = "cww_lock"
    /\ mu = NoOwner
    /\ IF done
       THEN /\ pc' = [pc EXCEPT ![t] = "ret"]
            /\ loc' = [loc EXCEPT ![t].val = state]
            /\ waited' = waited \cup {t}
            /\ UNCHANGED mu
       ELSE /\ mu' = t
            /\ pc' = [pc EXCEPT ![t] = "cww_hold"]
            /\ UNCHANGED <<loc, waited>>
    /\ UNCHANGED <<state, done, onDone, onCancel, onTimeout, heap, curGen, timed,
                   tok, mon, waiters, cbs, calls, clone>>

\* line 116, cond.Wait(): join the notify list and release the lock
CWWWait(t) ==
    /\ pc[t] = "cww_hold"
    /\ waiters' = waiters \cup {t}
    /\ mu' = NoOwner
    /\ pc' = [pc EXCEPT ![t] = "cww_parked"]
    /\ UNCHANGED <<state, done, onDone, onCancel, onTimeout, heap, curGen, timed,
                   tok, mon, loc, waited, cbs, calls, clone>>

\* cond.Wait() is notified and goes on to re-acquire the lock
CWWWake(t) ==
    /\ pc[t] = "cww_parked"
    /\ t \notin waiters
    /\ pc' = [pc EXCEPT ![t] = "cww_lock"]
    /\ UNCHANGED <<ctxVars, loc, waited, cbs, calls, clone>>

\* Reset(parent) lines 147-152: lock, new token and trigger, state = Created
ResetBegin(t) ==
    /\ pc[t] = "idle"
    /\ mu = NoOwner
    /\ curGen < MaxGen
    /\ mu' = t
    /\ curGen' = curGen + 1
    /\ state' = Created
    /\ pc' = [pc EXCEPT ![t] = "reset"]
    /\ loc' = [loc EXCEPT ![t] = [NoLoc EXCEPT !.op = "Reset", !.gen = curGen + 1]]
    /\ waited' = {}
    /\ mon' = [mon EXCEPT ![curGen + 1].from = state]
    /\ UNCHANGED <<done, onDone, onCancel, onTimeout, heap, timed, tok,
                   waiters, cbs, calls, clone>>

\* Reset(parent) lines 153-158: clear registries and done, launch monitor, unlock
ResetEnd(t) ==
    /\ pc[t] = "reset"
    /\ onDone' = NilSlice
    /\ onCancel' = NilSlice
    /\ onTimeout' = NilSlice
    /\ done' = FALSE
    /\ mon' = [mon EXCEPT ![curGen].pc = "start"]
    /\ mu' = NoOwner
    /\ pc' = [pc EXCEPT ![t] = "ret"]
    /\ UNCHANGED <<state, heap, curGen, timed, tok, waiters, loc, waited, cbs, calls,
               clone>>

\* the generation's own monitor has set a terminal state
GenTerminal == Terminal(state) /\ mon[curGen].pc \in {"loop", "call", "bcast", "exit"}

\* OnDone / OnCancel / OnTimeout with f != nil: evaluate append(cw.onX, f)
\* (max: how many callbacks may be registered; tag: a label kept in the history)
RegReadB(t, k, max, tag) ==
    /\ pc[t] = "idle"
    /\ Len(cbs) < max
    /\ LET f == Len(cbs) + 1
           h == Registry(k)
       IN /\ heap' = AppendHeap(h, f)
          /\ loc' = [loc EXCEPT ![t] = [NoLoc EXCEPT !.op = k, !.gen = curGen,
                                                      !.hdr = AppendHdr(h, f), !.cb = f]]
          /\ cbs' = Append(cbs, [kind |-> k, gen |-> curGen, tag |-> tag,
                                 phase |-> IF GenTerminal THEN "late" ELSE "mid"])
          /\ calls' = Append(calls, [g \in Gens |-> 0])
    /\ pc' = [pc EXCEPT ![t] = "reg"]
    /\ UNCHANGED <<state, done, mu, onDone, onCancel, onTimeout, curGen, timed,
                   tok, mon, waiters, waited, clone>>

RegRead(t, k) == RegReadB(t, k, MaxCb, "-")

\* ... and assign the result to cw.onX
RegStore(t) ==
    /\ pc[t] = "reg"
    /\ LET k == loc[t].op
           f == loc[t].cb
       IN /\ onDone' = IF k = "OnDone" THEN loc[t].hdr ELSE onDone
          /\ onCancel' = IF k = "OnCancel" THEN loc[t].hdr ELSE onCancel
          /\ onTimeout' = IF k = "OnTimeout" THEN loc[t].hdr ELSE onTimeout
          /\ cbs' = [cbs EXCEPT ![f].phase =
                        IF @ = "mid" /\ curGen = cbs[f].gen /\ tok[curGen] = ErrNone
                        THEN "early" ELSE @]
    /\ pc' = [pc EXCEPT ![t] = "idle"]
    /\ loc' = [loc EXCEPT ![t] = NoLoc]
    /\ UNCHANGED <<state, done, mu, heap, curGen, timed, tok, mon, waiters,
                   waited, calls, clone>>

\* OnDone / OnCancel / OnTimeout with f == nil: nothing is appended
RegNil(t, k) ==
    /\ pc[t] = "idle"
    /\ UNCHANGED vars

Observes(t) ==
    \/ StateOp(t)
    \/ IsDoneRead1(t)
    \/ IsDoneRead2(t)
    \/ RetDone(t)

Cancels(t) ==
    \/ CancelOp(t)
    \/ CWWCancel(t)
    \/ CWWCheck(t)
    \/ CWWWait(t)
    \/ CWWWake(t)

Registers(t) ==
    \/ \E k \in Kinds : RegRead(t, k)
    \/ RegStore(t)
    \/ \E k \in Kinds : RegNil(t, k)

Resets(t) ==
    \/ ResetBegin(t)
    \/ ResetEnd(t)

\* ------------------------------------------------------- specifications
\* every operation, by every caller
Next ==
    \/ \E g \in Gens : Monitor(g)
    \/ \E t \in Threads : Observes(t) \/ Cancels(t) \/ Registers(t) \/ Resets(t)
    \/ DeadlineFire
    \/ \E g \in Gens, e \in ParentErrs : ParentDone(g, e)

Spec == Init /\ [][Next]_vars

\* the generation made by the constructor: no Reset
NextGen0 ==
    \/ Monitor(0)
    \/ \E t \in Threads : Observes(t) \/ Cancels(t) \/ Registers(t)
    \/ DeadlineFire
    \/ \E e \in ParentErrs : ParentDone(0, e)

SpecGen0 == Init /\ [][NextGen0]_vars

TypeOK ==
    /\ state \in States
    /\ done \in BOOLEAN
    /\ mu \in Threads \cup {NoOwner}
    /\ curGen \in Gens
    /\ waiters \subseteq Threads


\* NewContextWithCancel on a parent that never terminates: no deadline, no Reset
InitCancel == Init /\ ~timed

NextCancel ==
    \/ Monitor(0)
    \/ \E t \in Threads : Observes(t) \/ Cancels(t) \/ Registers(t)

SpecCancel == InitCancel /\ [][NextCancel]_vars

\* generations started by Reset, the instance used by one caller at a time
RegistersOnce(t) ==
    \/ \E k \in Kinds : RegReadB(t, k, MaxCbReset, "-")
    \/ RegStore(t)
    \/ \E k \in Kinds : RegNil(t, k)

NextReset ==
    \/ \E g \in Gens : Monitor(g)
    \/ \E t \in {"t1"} : Observes(t) \/ Cancels(t) \/ RegistersOnce(t) \/ Resets(t)
    \/ DeadlineFire
    \/ \E g \in Gens, e \in ParentErrs : ParentDone(g, e)

SpecReset == Init /\ [][NextReset]_vars

\* one caller registers a single onCancel callback; the other registers
\* onCancel callbacks and cancels
RegFirst(t) ==
    /\ \A f \in 1 .. Len(cbs) : cbs[f].tag # t
    /\ RegReadB(t, "OnCancel", MaxCbAlias, t)

NextAlias ==
    \/ Monitor(0)
    \/ RegFirst("t1")
    \/ RegReadB("t2", "OnCancel", MaxCbAlias, "t2")
    \/ \E t \in Threads : RegStore(t)
    \/ CancelOp("t2")

SpecAlias == InitCancel /\ [][NextAlias]_vars

\* the steps that finish an operation a caller is in the middle of
Continue(t) ==
    \/ RetDone(t)
    \/ IsDoneRead2(t)
    \/ CWWCheck(t)
    \/ CWWWait(t)
    \/ CWWWake(t)
    \/ RegStore(t)
    \/ ResetEnd(t)

\* the Go scheduler runs every runnable goroutine: a monitor that can step
\* does, and so does a caller inside an operation; callbacks return
Fairness ==
    /\ \A g \in Gens : WF_vars(Monitor(g))
    /\ \A t \in Threads : WF_vars(Continue(t))

FairGen0 == SpecGen0 /\ Fairness

\* ------------------------------------------------------------- properties
Returned(t, op) == pc[t] = "ret" /\ loc[t].op = op

CbIds == 1 .. Len(cbs)

\* callback f was registered through k in generation g, and the registration
\* call had completed before the token of g terminated
RegisteredBefore(f, k, g) ==
    /\ cbs[f].kind = k
    /\ cbs[f].gen = g
    /\ cbs[f].phase = "early"

MonitorOver(g) == mon[g].pc \in {"bcast", "exit"}

\* C1: when CancelWithWait returns, the state is terminal (Canceled, Deadlined
\* or Finished) and the monitor of that generation has finished every callback
\* it dispatches.
C1_ReturnIsTerminalAndQuiet ==
    \A t \in Threads :
        Returned(t, "CancelWithWait") =>
            /\ Terminal(loc[t].val)
            /\ MonitorOver(loc[t].gen)

\* C2: under fair scheduling and with callbacks that return, every call of
\* CancelWithWait returns.
C2_WaitReturns ==
    \A t \in Threads : (pc[t] = "cww_lock") ~> Returned(t, "CancelWithWait")

\* C3: a State() call made right after the constructor returned, before any
\* Cancel, deadline expiry or other call, yields Created, and IsDone() false.
JustConstructed ==
    /\ curGen = 0
    /\ tok[0] = ErrNone
    /\ cbs = <<>>
    /\ waited = {}
    /\ \A u \in Threads : pc[u] = "idle"

C3_FreshStateIsCreated ==
    [][\A t \in Threads :
          /\ (JustConstructed /\ StateOp(t)) => loc'[t].val = Created
          /\ (JustConstructed /\ IsDoneRead1(t) /\ pc'[t] = "ret") => loc'[t].val = "false"
      ]_vars

\* C4: on an instance built by NewContextWithCancel whose parent never
\* terminates, and until a Reset, once a caller's CancelWithWait has returned
\* the state is Canceled and stays so: every State() that caller makes returns
\* Canceled and every IsDone() true, whatever Cancel / CancelWithWait follow.
C4_CanceledAfterWait ==
    \A t \in waited :
        (curGen = 0 /\ ~timed /\ tok[0] = ErrCanceled) =>
            /\ state = Canceled
            /\ Returned(t, "CancelWithWait") => loc[t].val = Canceled
            /\ Returned(t, "State") => loc[t].val = Canceled
            /\ Returned(t, "IsDone") => loc[t].val = "true"

C4_Witness ==
    \E t \in waited :
        /\ curGen = 0 /\ ~timed /\ tok[0] = ErrCanceled
        /\ Returned(t, "State")
        /\ loc[t].val = Canceled

\* C5: an onCancel callback whose OnCancel call completed before the
\* cancellation was triggered has been invoked exactly once when
\* CancelWithWait returns.
C5_EarlyOnCancelCalledOnce ==
    \A t \in Threads :
        Returned(t, "CancelWithWait") =>
            \A f \in CbIds :
                (RegisteredBefore(f, "OnCancel", loc[t].gen) /\ tok[loc[t].gen] = ErrCanceled)
                    => calls[f][loc[t].gen] = 1

\* C6: on every termination of a generation, whatever the cause, every onDone
\* callback registered before the termination has been invoked by the time the
\* monitor sets the generation-done flag.
C6_OnDoneAlwaysDispatched ==
    \A g \in Gens :
        MonitorOver(g) =>
            \A f \in CbIds : RegisteredBefore(f, "OnDone", g) => calls[f][g] = 1

\* C7: on an instance built by NewContextWithTimeout, never cancelled and never
\* Reset, whose deadline has fired: when the monitor is through, the state is
\* Deadlined, the onTimeout callbacks registered before the expiry have been
\* dispatched and no onCancel callback has.
C7_DeadlineDispatch ==
    (timed /\ curGen = 0 /\ tok[0] = ErrDeadline /\ MonitorOver(0)) =>
        /\ state = Deadlined
        /\ \A f \in CbIds : RegisteredBefore(f, "OnTimeout", 0) => calls[f][0] = 1
        /\ \A f \in CbIds : cbs[f].kind = "OnCancel" => calls[f][0] = 0


\* C8: a callback registered after the state of its generation has become
\* terminal is never invoked by the monitor of that generation.
C8_LateCallbackNeverInvoked ==
    \A f \in CbIds : cbs[f].phase = "late" => calls[f][cbs[f].gen] = 0

\* C9: after Reset(parent) has returned on an instance that was in a terminal
\* state, and before the new generation is cancelled, State() yields Created,
\* the generation-done flag is false, the three registries are empty and no
\* callback registered in an earlier generation has been invoked in the new one.
C9_ResetRestoresCreated ==
    \A t \in Threads :
        (/\ Returned(t, "Reset")
         /\ loc[t].gen = curGen
         /\ Terminal(mon[curGen].from)
         /\ tok[curGen] = ErrNone) =>
            /\ state = Created
            /\ done = FALSE
            /\ onDone.len = 0 /\ onCancel.len = 0 /\ onTimeout.len = 0
            /\ \A f \in CbIds : cbs[f].gen < curGen => calls[f][curGen] = 0

\* C10: on an instance whose state was terminal, after Reset(parent) with a
\* parent that does not terminate, CancelWithWait returns with State() Canceled.
C10_ResetThenWaitCancels ==
    \A t \in Threads :
        (/\ Returned(t, "CancelWithWait")
         /\ loc[t].gen > 0
         /\ loc[t].gen = curGen
         /\ Terminal(mon[curGen].from)
         /\ tok[curGen] = ErrCanceled) =>
            /\ loc[t].val = Canceled
            /\ state = Canceled

\* C13: when the done-signal has fired with a sentinel that is neither
\* context.Canceled nor context.DeadlineExceeded, the monitor sets state to
\* Finished.
C13_UnknownSentinelFinishes ==
    (curGen = 0 /\ tok[0] = ErrOther /\ mon[0].pc \in {"loop", "call", "bcast", "exit"})
        => state = Finished

\* C14: within one generation the state only moves forward: no step changes
\* it from Running back to Created or from a terminal state to another state,
\* except Reset starting a new generation.
C14_StateNeverRegresses ==
    [][curGen' = curGen =>
          /\ ~(state = Running /\ state' = Created)
          /\ Terminal(state) => state' = state
      ]_vars

\* C15: at most one monitor goroutine is active per instance; Reset never
\* launches a monitor while the monitor of the previous generation has not exited.
ActiveMonitors == {g \in Gens : mon[g].pc \notin {"none", "exit"}}

C15_OneActiveMonitor == Cardinality(ActiveMonitors) <= 1

\* C16: every access to state, the generation-done flag and the registries is
\* made with the mutex held by the accessing goroutine; hence no goroutine
\* reads or writes one of them while another goroutine holds the mutex.
OwnerStep == mu # NoOwner /\ (ResetEnd(mu) \/ CWWWait(mu))

RacyRead == \E t \in Threads : IsDoneRead1(t) \/ IsDoneRead2(t)

C16_AccessUnderMutex ==
    [][(mu # NoOwner /\ ~OwnerStep) =>
          /\ UNCHANGED <<state, done, onDone, onCancel, onTimeout>>
          /\ ~RacyRead
      ]_vars

\* C17: in a dispatch pass the callbacks are invoked in the order of their
\* registration, each once, and no two callbacks of one instance run at the
\* same time.
InCallback == {g \in Gens : mon[g].pc = "call"}

DispatchInOrder ==
    \A g \in Gens :
        MonCall(g) =>
            LET f == heap[mon[g].snap.arr][mon[g].i + 1]
            IN \A f2 \in CbIds : f2 >= f => calls[f2][g] = 0

C17_OrderedOneAtATime ==
    /\ [](Cardinality(InCallback) <= 1)
    /\ [][DispatchInOrder]_vars

\* ------------------------------------------------- a callback that panics
\* f() panics inside the monitor goroutine: startMonitoring has no recover,
\* the panic unwinds the goroutine and the runtime ends the program, and with
\* it every caller goroutine
MonPanic(g) ==
    /\ mon[g].pc = "call"
    /\ mon' = [mon EXCEPT ![g].pc = "panicked"]
    /\ pc' = [t \in Threads |-> "crashed"]
    /\ UNCHANGED <<state, done, mu, onDone, onCancel, onTimeout, heap, curGen,
                   timed, tok, waiters, loc, waited, cbs, calls, clone>>

NextPanic ==
    \/ Monitor(0)
    \/ MonPanic(0)
    \/ \E t \in Threads : Observes(t) \/ Cancels(t) \/ Registers(t)
    \/ DeadlineFire

SpecPanic == Init /\ [][NextPanic]_vars

FairPanic == SpecPanic /\ Fairness

\* C18: when a callback of a dispatch pass panics, the remaining callbacks of
\* the registry are still invoked and the monitor still completes the
\* generation: it sets the generation-done flag and wakes the waiters.
C18_PanicDoesNotStopDispatch ==
    \A g \in Gens :
        (mon[g].pc = "panicked") ~>
            /\ done
            /\ MonitorOver(g)
            /\ \A i \in 1 .. mon[g].snap.len : calls[heap[mon[g].snap.arr][i]][g] >= 1

\* ------------------------------------- a parent that is already terminated
\* NewContextWithCancel / NewContextWithTimeout on a terminated parent: the
\* derived token is done from the start and reports the parent's Err()
InitDead ==
    /\ state = Created
    /\ done = FALSE
    /\ mu = NoOwner
    /\ onDone = NilSlice
    /\ onCancel = NilSlice
    /\ onTimeout = NilSlice
    /\ heap = <<>>
    /\ curGen = 0
    /\ timed \in BOOLEAN
    /\ \E e \in ParentErrs : tok = [g \in Gens |-> IF g = 0 THEN e ELSE ErrNone]
    /\ mon = [g \in Gens |-> IF g = 0 THEN [IdleMon EXCEPT !.pc = "start"] ELSE IdleMon]
    /\ waiters = {}
    /\ pc = [t \in Threads |-> "idle"]
    /\ loc = [t \in Threads |-> NoLoc]
    /\ waited = {}
    /\ cbs = <<>>
    /\ calls = <<>>
    /\ clone = NoClone

SpecDead == InitDead /\ [][NextCancel]_vars /\ Fairness

\* the callbacks the monitor of g took at classification have each been invoked
\* once, and no callback of another registry has been invoked
SnapDispatched(g, k) ==
    /\ \A i \in 1 .. mon[g].snap.len : calls[heap[mon[g].snap.arr][i]][g] = 1
    /\ \A f \in CbIds : cbs[f].kind # k => calls[f][g] = 0

\* C19: when the constructor is given a parent that is already terminated, the
\* monitor does not block: it eventually sets the generation-done flag, with
\* state Canceled for the cancellation sentinel and Deadlined for the
\* deadline sentinel, having dispatched the matching registry.
C19_DeadParentCompletes ==
    <>[](/\ done
         /\ MonitorOver(0)
         /\ tok[0] = ErrCanceled => (state = Canceled /\ SnapDispatched(0, "OnCancel"))
         /\ tok[0] = ErrDeadline => (state = Deadlined /\ SnapDispatched(0, "OnTimeout")))

C19_Witness ==
    /\ tok[0] = ErrDeadline
    /\ mon[0].pc = "exit"
    /\ done
    /\ state = Deadlined
    /\ \E f \in CbIds : cbs[f].kind = "OnTimeout" /\ calls[f][0] = 1

\* ------------------------------------------------------------------ Clone
\* capacity of append([]func(){}, src...) for n elements of one word: the
\* allocation is rounded up to a size class (8, 16, 24, 32, 48, 64, 80 bytes)
CloneCap(n) == IF n \in {5, 7, 9} THEN n + 1 ELSE n

\* append([]func(){}, src...) with the heap h: the header of the copy ...
CopyOf(src, h) ==
    IF src.len = 0 THEN NilSlice
    ELSE [arr |-> Len(h) + 1, len |-> src.len, cap |-> CloneCap(src.len)]

\* ... and the heap with the new backing array
HeapWithCopy(src, h) ==
    IF src.len = 0 THEN h
    ELSE Append(h, [j \in 1 .. CloneCap(src.len) |->
                       IF j <= src.len THEN h[src.arr][j] ELSE 0])

\* Clone() lines 167-170: ctx, cancel and state are read, with no lock
CloneRead(t) ==
    /\ pc[t] = "idle"
    /\ ~clone.made
    /\ pc' = [pc EXCEPT ![t] = "clone"]
    /\ loc' = [loc EXCEPT ![t] = [NoLoc EXCEPT !.op = "Clone", !.gen = curGen,
                                                !.val = state]]
    /\ UNCHANGED <<ctxVars, waited, cbs, calls, clone>>

\* Clone() lines 171-175: the three registries are copied into new arrays;
\* cond stays nil, done false, mu is a mutex of its own
CloneCopy(t) ==
    /\ pc[t] = "clone"
    /\ LET h1 == HeapWithCopy(onDone, heap)
           h2 == HeapWithCopy(onCancel, h1)
           h3 == HeapWithCopy(onTimeout, h2)
       IN /\ heap' = h3
          /\ clone' = [made |-> TRUE, ctx |-> loc[t].gen, state |-> loc[t].val,
                       done |-> FALSE, mu |-> NoOwner,
                       onDone |-> CopyOf(onDone, heap),
                       onCancel |-> CopyOf(onCancel, h1),
                       onTimeout |-> CopyOf(onTimeout, h2)]
    /\ pc' = [pc EXCEPT ![t] = "ret"]
    /\ UNCHANGED <<state, done, mu, onDone, onCancel, onTimeout, curGen, timed,
                   tok, mon, waiters, loc, waited, cbs, calls>>

\* clone.State(): lock the clone's mutex, read its state
ClStateOp(t) ==
    /\ pc[t] = "idle"
    /\ clone.made
    /\ clone.mu = NoOwner
    /\ pc' = [pc EXCEPT ![t] = "ret"]
    /\ loc' = [loc EXCEPT ![t] = [NoLoc EXCEPT !.op = "Clone.State", !.gen = clone.ctx,
                                                !.val = clone.state]]
    /\ UNCHANGED <<ctxVars, waited, cbs, calls, clone>>

CloneRegistry(k) == CASE k = "OnDone" -> clone.onDone
                      [] k = "OnCancel" -> clone.onCancel
                      [] k = "OnTimeout" -> clone.onTimeout

\* OnDone / OnCancel / OnTimeout on the original, mistaken for the clone
ClRegisterOnOriginal(t, k) ==
    /\ pc[t] = "idle"
    /\ clone.made
    /\ Len(cbs) < MaxCbClone
    /\ LET f == Len(cbs) + 1
           h == Registry(k)
       IN /\ heap' = AppendHeap(h, f)
          /\ onDone' = IF k = "OnDone" THEN AppendHdr(h, f) ELSE onDone
          /\ onCancel' = IF k = "OnCancel" THEN AppendHdr(h, f) ELSE onCancel
          /\ onTimeout' = IF k = "OnTimeout" THEN AppendHdr(h, f) ELSE onTimeout
          /\ cbs' = Append(cbs, [kind |-> k, gen |-> clone.ctx, tag |-> "clone",
                                 phase |-> "clone"])
          /\ calls' = Append(calls, [g \in Gens |-> 0])
    /\ UNCHANGED <<state, done, mu, curGen, timed, tok, mon, waiters, pc, loc,
                   waited, clone>>

\* clone.OnDone / OnCancel / OnTimeout (f != nil): append to the clone's
\* registry (the clone is used by one goroutine)
ClRegister(t, k) ==
    /\ pc[t] = "idle"
    /\ clone.made
    /\ Len(cbs) < MaxCbClone
    /\ LET f == Len(cbs) + 1
           h == CloneRegistry(k)
       IN /\ heap' = AppendHeap(h, f)
          /\ clone' = CASE k = "OnDone" -> [clone EXCEPT !.onDone = AppendHdr(h, f)]
                        [] k = "OnCancel" -> [clone EXCEPT !.onCancel = AppendHdr(h, f)]
                        [] k = "OnTimeout" -> [clone EXCEPT !.onTimeout = AppendHdr(h, f)]
          /\ cbs' = Append(cbs, [kind |-> k, gen |-> clone.ctx, tag |-> "clone",
                                 phase |-> "clone"])
          /\ calls' = Append(calls, [g \in Gens |-> 0])
    /\ UNCHANGED <<state, done, mu, onDone, onCancel, onTimeout, curGen, timed,
                   tok, mon, waiters, pc, loc, waited>>

\* clone.cancel(): the trigger copied from the original
CloneCancelTok ==
    IF tok[clone.ctx] = ErrNone
    THEN [tok EXCEPT ![clone.ctx] = ErrCanceled]
    ELSE tok

\* clone.Cancel()
ClCancelOp(t) ==
    /\ pc[t] = "idle"
    /\ clone.made
    /\ tok' = CloneCancelTok
    /\ UNCHANGED <<state, done, mu, onDone, onCancel, onTimeout, heap, curGen,
                   timed, mon, waiters, pc, loc, waited, cbs, calls, clone>>

\* clone.CancelWithWait() line 113
ClCWWCancel(t) ==
    /\ pc[t] = "idle"
    /\ clone.made
    /\ tok' = CloneCancelTok
    /\ pc' = [pc EXCEPT ![t] = "clcww_lock"]
    /\ loc' = [loc EXCEPT ![t] = [NoLoc EXCEPT !.op = "Clone.CancelWithWait",
                                                !.gen = clone.ctx]]
    /\ UNCHANGED <<state, done, mu, onDone, onCancel, onTimeout, heap, curGen,
                   timed, mon, waiters, waited, cbs, calls, clone>>

\* clone.CancelWithWait() that returns without looking at the clone's done flag
ClCWWCheckReturns(t) ==
    /\ pc[t] = "clcww_lock"
    /\ clone.mu = NoOwner
    /\ pc' = [pc EXCEPT ![t] = "ret"]
    /\ loc' = [loc EXCEPT ![t].val = clone.state]
    /\ UNCHANGED <<ctxVars, waited, cbs, calls, clone>>

\* lines 114-115, 118 on the clone: lock its mutex and test its done flag
ClCWWCheck(t) ==
    /\ pc[t] = "clcww_lock"
    /\ clone.mu = NoOwner
    /\ IF clone.done
       THEN /\ pc' = [pc EXCEPT ![t] = "ret"]
            /\ loc' = [loc EXCEPT ![t].val = clone.state]
            /\ UNCHANGED clone
       ELSE /\ clone' = [clone EXCEPT !.mu = t]
            /\ pc' = [pc EXCEPT ![t] = "clcww_hold"]
            /\ UNCHANGED loc
    /\ UNCHANGED <<ctxVars, waited, cbs, calls>>

\* line 116 on the clone: cw.cond is nil, cond.Wait() dereferences it and the
\* goroutine panics, the clone's mutex still locked
ClCWWWait(t) ==
    /\ pc[t] = "clcww_hold"
    /\ pc' = [pc EXCEPT ![t] = "panicked"]
    /\ UNCHANGED <<ctxVars, loc, waited, cbs, calls, clone>>

\* the caller recovers the panic (a deferred recover of its own) and goes on;
\* a caller that does not stays where it is, the program having ended
ClRecover(t) ==
    /\ pc[t] = "panicked"
    /\ pc' = [pc EXCEPT ![t] = "idle"]
    /\ loc' = [loc EXCEPT ![t] = NoLoc]
    /\ UNCHANGED <<ctxVars, waited, cbs, calls, clone>>

Clones(t) ==
    \/ CloneRead(t)
    \/ CloneCopy(t)
    \/ ClStateOp(t)
    \/ \E k \in Kinds : ClRegister(t, k)
    \/ ClCancelOp(t)
    \/ ClCWWCancel(t)
    \/ ClCWWCheck(t)
    \/ ClCWWWait(t)
    \/ ClRecover(t)

RegistersClone(t) ==
    \/ \E k \in Kinds : RegReadB(t, k, MaxCbClone, "-")
    \/ RegStore(t)

\* the original and its clone, no Reset: one caller makes the clone and uses
\* both instances, the other uses the original
NextClone ==
    \/ Monitor(0)
    \/ DeadlineFire
    \/ Clones("t1") \/ StateOp("t1") \/ RetDone("t1")
    \/ \E t \in Threads : RegistersClone(t)
    \/ CancelOp("t2")

SpecClone == Init /\ [][NextClone]_vars

\* callbacks registered on the clone
CloneCbs == {f \in CbIds : cbs[f].tag = "clone"}

InSlice(f, h) == \E i \in 1 .. h.len : heap[h.arr][i] = f

\* C11: Clone() right after construction (and after the registrations): each
\* registry of the clone has the length of the original's at clone time, and a
\* following comparison clone.State() == original.State() is true, in every
\* interleaving with the original's monitor.
C11_CloneStateEqualsOriginal ==
    [][\A t \in Threads :
          /\ CloneCopy(t) =>
                /\ clone'.onDone.len = onDone.len
                /\ clone'.onCancel.len = onCancel.len
                /\ clone'.onTimeout.len = onTimeout.len
          /\ (clone.made /\ tok[0] = ErrNone /\ CloneCbs = {} /\ StateOp(t))
                => loc'[t].val = clone.state
      ]_vars

\* C12: after Clone(), whatever is done with the original and the clone
\* (registrations, Cancel, deadline expiry): a callback registered on the
\* clone is never invoked and is in no registry of the original, and the
\* clone's state keeps the value copied at clone time.
C12_CloneIsDetached ==
    /\ [](\A f \in CloneCbs :
            /\ \A g \in Gens : calls[f][g] = 0
            /\ ~InSlice(f, onDone) /\ ~InSlice(f, onCancel) /\ ~InSlice(f, onTimeout)
            /\ \A g \in Gens : ~InSlice(f, mon[g].snap))
    /\ [][clone.made => clone'.state = clone.state]_vars

C12_Witness ==
    /\ clone.made
    /\ clone.state \in {Created, Running}
    /\ state = Canceled
    /\ mon[0].pc = "exit"
    /\ \E f \in CloneCbs : InSlice(f, CloneRegistry(cbs[f].kind))
    /\ \E f \in CbIds \ CloneCbs : calls[f][0] = 1

\* C20: CancelWithWait on the instance returned by Clone() never returns
\* normally; the clone's done flag is false and nothing sets it; the call
\* cancels the token shared with the original, whose monitor then ends with
\* the original in state Canceled, the clone's state being left as it was.
C20_CloneWaitNeverReturns ==
    /\ [](\A t \in Threads :
            /\ ~Returned(t, "Clone.CancelWithWait")
            /\ pc[t] \in {"clcww_lock", "clcww_hold", "panicked"} =>
                  /\ tok[clone.ctx] # ErrNone
                  /\ (tok[clone.ctx] = ErrCanceled /\ MonitorOver(clone.ctx))
                        => state = Canceled)
    /\ [](clone.done = FALSE)
    /\ [][\A t \in Threads :
            (ClCWWCancel(t) \/ ClCWWCheck(t) \/ ClCWWWait(t)) =>
                clone'.state = clone.state]_vars

C20_Witness ==
    /\ pc["t1"] = "panicked"
    /\ loc["t1"].op = "Clone.CancelWithWait"
    /\ clone.state \in {Created, Running}
    /\ tok[0] = ErrCanceled
    /\ mon[0].pc = "exit"
    /\ state = Canceled

====
